---- MODULE Spec2Model ----
(***************************************************************************)
(* A model of libudf-rs: the UDF descriptor decoders (src/volume.rs,       *)
(* src/file.rs) and the session UDF<IO> (src/lib.rs).                      *)
(*                                                                         *)
(* Numbers.  The code computes with u8/u16/u32/u64.  A value that can      *)
(* exceed 2^31 - 1 is held as four base-2^16 limbs, least significant      *)
(* first: <<l0, l1, l2, l3>> stands for l0 + l1*2^16 + l2*2^32 + l3*2^48.  *)
(* A u32 has l2 = l3 = 0.  Small values (u8, u16, bit fields of at most    *)
(* 30 bits) are plain integers.                                            *)
(***************************************************************************)
EXTENDS Integers, Sequences, FiniteSets, TLC

VARIABLES
    overflow_checks, \* the build: TRUE panics on integer overflow, FALSE wraps
    image,           \* the byte source: sector number -> block
    pc,              \* position of the caller in UDF::new / the session
    n,               \* UDF::new: the sector the VDS scan reads next
    vds_end,         \* UDF::new: the end of the scan range
    o_pvd,           \* UDF::new: Option<PVD>
    o_pd,            \* UDF::new: Option<PD>
    o_lvd,           \* UDF::new: Option<LVD>
    reads,           \* UDF::new: sectors read by the scan so far, in order
    udf,             \* the session value UDF { primary_vol_desc, ... } or None
    ret,             \* the value returned by the last call
    inp,             \* input of a decoder applied on its own
    out              \* its result

vars == <<overflow_checks, image, pc, n, vds_end, o_pvd, o_pd, o_lvd, reads,
          udf, ret, inp, out>>

sessionVars == <<overflow_checks, image, pc, n, vds_end, o_pvd, o_pd, o_lvd,
                 reads, udf, ret>>

(***************************************************************************)
(* Fixed-width arithmetic                                                  *)
(***************************************************************************)
LimbBase == 2 ^ 16

Pow2(k) == 2 ^ k

\* the limb form of a small natural number (below 2^31)
U(k) == <<k % LimbBase, k \div LimbBase, 0, 0>>

\* the u32 with the given high and low 16-bit halves
W32(hi, lo) == <<lo, hi, 0, 0>>

Zero == U(0)

IsU32(a) == a[3] = 0 /\ a[4] = 0

\* a + b as an exact integer (below 2^64 for all the sums taken here)
AddN(a, b) ==
    LET s1 == a[1] + b[1]
        s2 == a[2] + b[2] + (s1 \div LimbBase)
        s3 == a[3] + b[3] + (s2 \div LimbBase)
        s4 == a[4] + b[4] + (s3 \div LimbBase)
    IN  <<s1 % LimbBase, s2 % LimbBase, s3 % LimbBase, s4 % LimbBase>>

\* a * 2^k for a limb number, k <= 14, exact below 2^64
ShlN(a, k) ==
    LET m == Pow2(k)
        p1 == a[1] * m
        p2 == a[2] * m + (p1 \div LimbBase)
        p3 == a[3] * m + (p2 \div LimbBase)
        p4 == a[4] * m + (p3 \div LimbBase)
    IN  <<p1 % LimbBase, p2 % LimbBase, p3 % LimbBase, p4 % LimbBase>>

\* x as u32: the low 32 bits
Wrap32(a) == <<a[1], a[2], 0, 0>>

LtN(a, b) ==
    \/ a[4] < b[4]
    \/ a[4] = b[4] /\ a[3] < b[3]
    \/ a[4] = b[4] /\ a[3] = b[3] /\ a[2] < b[2]
    \/ a[4] = b[4] /\ a[3] = b[3] /\ a[2] = b[2] /\ a[1] < b[1]


\* Rust's `a + b` on u32: the wrapped sum, and whether it overflowed.  With
\* overflow checks the program panics on overflow; without, it keeps the
\* wrapped sum.
AddU32(a, b) == [val |-> Wrap32(AddN(a, b)), ovf |-> ~IsU32(AddN(a, b))]

\* Rust's `a * b` on u32 for b = 2^k
ShlU32(a, k) == [val |-> Wrap32(ShlN(a, k)), ovf |-> ~IsU32(ShlN(a, k))]

\* bit i (0 = least significant) of a limb number
BitOf(a, i) == (a[(i \div 16) + 1] \div Pow2(i % 16)) % 2

RECURSIVE BitSum(_, _, _, _)
BitSum(a, msb, lsb, i) ==
    IF i > msb THEN 0
    ELSE BitOf(a, i) * Pow2(i - lsb) + BitSum(a, msb, lsb, i + 1)

\* bitfield::BitRange::bit_range(msb, lsb): bits msb..lsb of a, as an integer
BitRange(a, msb, lsb) == BitSum(a, msb, lsb, lsb)

(***************************************************************************)
(* Byte strings                                                            *)
(***************************************************************************)
\* nom le_u16 / le_u32 on the first bytes of i (caller checks the length)
LeU16(i, at) == i[at] + 256 * i[at + 1]
LeU32(i, at) == W32(LeU16(i, at + 2), LeU16(i, at))

Drop(i, k) == SubSeq(i, k + 1, Len(i))

\* the four bytes that encode a u32, little-endian
EncU32(a) == <<a[1] % 256, a[1] \div 256, a[2] % 256, a[2] \div 256>>

Zeros(k) == [j \in 1..k |-> 0]

(***************************************************************************)
(* Results.  A nom parser returns Ok((rest, value)) or Err(kind); a Rust   *)
(* Option is None or Some(value).                                          *)
(***************************************************************************)
Ok(rest, val) == [ok |-> TRUE, rest |-> rest, val |-> val]
Err(kind) == [ok |-> FALSE, panic |-> FALSE, err |-> kind]

\* a panic (unwrap on an Err, an overflow check): the call never returns
Panic(msg) == [ok |-> FALSE, panic |-> TRUE, err |-> msg]

None == [some |-> FALSE]
Some(v) == [some |-> TRUE, val |-> v]

(***************************************************************************)
(* src/file.rs: allocation descriptors                                     *)
(***************************************************************************)
ShortADSize == 8
LongADSize == 16
ExtADSize == 20

\* LBAddr { lbn: u32, part_ref_nr: u16 }
LBAddr_parse(i, at) == [lbn |-> LeU32(i, at), part_ref_nr |-> LeU16(i, at + 4)]

\* the packed length field: type = bits 31..30
Mut_ExtentType(len) == BitRange(len, 31, 29)
ExtentType(len) == BitRange(len, 31, 30)

\* the packed length field: length = bits 29..0
ExtentLen(len) == U(BitRange(len, 29, 0))

ShortAD_parse_le(i) ==
    IF Len(i) < ShortADSize THEN Err("Eof")
    ELSE LET len == LeU32(i, 1)
             pos == LeU32(i, 5)
         IN  Ok(Drop(i, ShortADSize),
                [len |-> ExtentLen(len), pos |-> pos, ty |-> ExtentType(len)])

LongAD_parse_le(i) ==
    IF Len(i) < LongADSize THEN Err("Eof")
    ELSE LET len == LeU32(i, 1)
             loc == LBAddr_parse(i, 5)
             impl_use == SubSeq(i, 11, 16)
         IN  Ok(Drop(i, LongADSize),
                [len |-> ExtentLen(len), loc |-> loc, impl_use |-> impl_use,
                 ty |-> ExtentType(len)])

ExtAD_parse_le(i) ==
    IF Len(i) < ExtADSize THEN Err("Eof")
    ELSE LET len == LeU32(i, 1)
             rec_len == LeU32(i, 5)
             info_len == LeU32(i, 9)
             ext_loc == LBAddr_parse(i, 13)
             impl_use == SubSeq(i, 19, 20)
         IN  Ok(Drop(i, ExtADSize),
                [len |-> ExtentLen(len), rec_len |-> ExtentLen(rec_len),
                 info_len |-> info_len, ext_loc |-> ext_loc,
                 impl_use |-> impl_use, len_ty |-> ExtentType(len),
                 rec_len_ty |-> ExtentType(rec_len)])

\* enum AllocDesc, selected by AllocType
AllocDesc_parse(i, selector) ==
    LET r == CASE selector = "SHORT" -> ShortAD_parse_le(i)
               [] selector = "LONG" -> LongAD_parse_le(i)
               [] selector = "EXTENDED" -> ExtAD_parse_le(i)
    IN  IF r.ok THEN Ok(r.rest, [variant |-> selector, ad |-> r.val]) ELSE r

\* ICBFlags::get_alloc_type: the low 4 bits of the flags select the variant
get_alloc_type(bits) ==
    LET ty == BitRange(U(bits), 3, 0)
    IN  CASE ty = 0 -> [ok |-> TRUE, val |-> "SHORT"]
          [] ty = 1 -> [ok |-> TRUE, val |-> "LONG"]
          [] ty = 2 -> [ok |-> TRUE, val |-> "EXTENDED"]
          [] OTHER -> Err("unknown alloc type.")

\* the loop of get_alloc_descs: parse descriptors until one fails
RECURSIVE AllocDescLoop(_, _)
AllocDescLoop(i, ty) ==
    LET desc == AllocDesc_parse(i, ty)
    IN  IF desc.ok THEN <<desc.val>> \o AllocDescLoop(desc.rest, ty) ELSE <<>>

\* ICB::get_alloc_descs with an `if let` in place of the loop
Mut_ICB_get_alloc_descs(icb) ==
    LET ty == get_alloc_type(icb.icb_tag.flags)
    IN  IF ~ty.ok THEN Panic("unwrap: unknown alloc type.")
        ELSE [ok |-> TRUE,
              val |-> IF icb.body.variant = "File"
                      THEN LET desc == AllocDesc_parse(icb.body.alloc_descs,
                                                       ty.val)
                           IN  IF desc.ok THEN <<desc.val>> ELSE <<>>
                      ELSE <<>>]

\* ICB::get_alloc_descs.  unwrap() on an Err panics: the call does not return.
ICB_get_alloc_descs(icb) ==
    LET ty == get_alloc_type(icb.icb_tag.flags)
    IN  IF ~ty.ok THEN Panic("unwrap: unknown alloc type.")
        ELSE [ok |-> TRUE,
              val |-> IF icb.body.variant = "File"
                      THEN AllocDescLoop(icb.body.alloc_descs, ty.val)
                      ELSE <<>>]

(***************************************************************************)
(* Blocks.  A 2048-byte block is held as the raw values of the fields the  *)
(* decoders read from it; every other byte is left out.  The same bytes    *)
(* are a Tag and a FileTag, so tag_id is one raw u16 for both.             *)
(***************************************************************************)
BLOCKSIZE == 2048

ZeroBlock ==
    [tag_id |-> 0,                    \* Tag.tag_id / FileTag.tag_id, raw u16
     vds_num |-> 0,                   \* PVD/PD/LVD.vds_num
     main_vds |-> [len |-> Zero, loc |-> Zero],   \* AVD.main_vds
     part_ident |-> "",               \* PD.part_cont.ident without the NULs
     part_start |-> Zero,             \* PD.part_start
     lbs |-> 0,                       \* LVD.lbs
     lv_contents_use |-> Zeros(16),   \* LVD.lv_contents_use
     num_part_maps |-> 0,             \* LVD.num_part_maps
     part_maps |-> <<>>,              \* the bytes after LVD.integr_seq_ext
     root_dir_icb |-> Zeros(16),      \* FSD.root_dir_icb
     fid_len |-> 0,                   \* FID.fid_len
     impl_len |-> 0,                  \* FID.impl_len
     file_type |-> 0,                 \* ICBTag.file_type, raw u8
     flags |-> 0,                     \* ICBTag.flags.bits
     ea_len |-> 0,                    \* FileEntry._ea_len
     ad_len |-> 0,                    \* FileEntry._ad_len
     ad_area |-> <<>>]                \* the bytes after FileEntry.ex_attrs

\* a PD identifier that is not UTF-8
NotUtf8 == "<not utf-8>"

(***************************************************************************)
(* src/volume.rs                                                           *)
(***************************************************************************)
\* enum TagID (repr u16): discriminants 0..9
TagIDName ==
    <<"PVD", "AVD", "VD", "IUVD", "PD", "LVD", "USD", "TD", "LVID">>

TagID_parse(raw) ==
    IF raw = 0 THEN [ok |-> TRUE, val |-> "UNK"]
    ELSE IF raw \in 1..Len(TagIDName) THEN [ok |-> TRUE, val |-> TagIDName[raw]]
    ELSE Err("Switch@tag_id")

\* struct Tag: the 16-byte header; only tag_id is kept
Tag_parse(b) ==
    LET id == TagID_parse(b.tag_id)
    IN  IF id.ok THEN [ok |-> TRUE, val |-> [tag_id |-> id.val]] ELSE id

\* #[nom(Verify = "tag.tag_id == TagID::X")] pub tag: Tag
TagVerify(b, kind) ==
    LET t == Tag_parse(b)
    IN  IF ~t.ok THEN t
        ELSE IF t.val.tag_id # kind THEN Err("Verify@tag")
        ELSE t

PVD_parse(b) ==
    LET t == TagVerify(b, "PVD")
    IN  IF ~t.ok THEN t
        ELSE [ok |-> TRUE, val |-> [tag |-> t.val, vds_num |-> b.vds_num]]

AVD_parse(b) ==
    LET t == TagVerify(b, "AVD")
    IN  IF ~t.ok THEN t
        ELSE [ok |-> TRUE, val |-> [tag |-> t.val, main_vds |-> b.main_vds]]

PD_parse(b) ==
    LET t == TagVerify(b, "PD")
    IN  IF ~t.ok THEN t
        ELSE [ok |-> TRUE,
              val |-> [tag |-> t.val, vds_num |-> b.vds_num,
                       part_cont |-> [ident |-> b.part_ident],
                       part_start |-> b.part_start]]

TD_parse(b) ==
    LET t == TagVerify(b, "TD")
    IN  IF ~t.ok THEN t ELSE [ok |-> TRUE, val |-> [tag |-> t.val]]

\* the bytes of a block after the fixed part of an LVD (440 bytes)
LVDFixedSize == 440
PartMapArea == BLOCKSIZE - LVDFixedSize

\* byte k (from 1) of the partition-map area; the block is zero after the
\* recorded bytes
PMByte(pm, k) == IF k <= Len(pm) THEN pm[k] ELSE 0

PMType1Size == 6
PMType2Size == 64

\* offset of PMType2.meta_file_loc from the type byte of its PartMap
MetaFileLocOffset == 40

\* struct PartMap at byte `at` of the area: the type byte, then the variant
\* it selects.  Ok(rest, val) gives the position after the entry as rest.
PartMap_parse(pm, at, checks) ==
    IF at + 1 > PartMapArea THEN Err("Eof")
    ELSE
    LET ty == PMByte(pm, at)
        len == PMByte(pm, at + 1)
    IN  CASE ty = 0 ->
               \* UNK { len, data: Count = len as usize - 2 }
               IF len < 2
               THEN IF checks THEN Panic("attempt to subtract with overflow")
                    ELSE Err("Count")
               ELSE IF at + len - 1 > PartMapArea THEN Err("Count")
               ELSE Ok(at + len, [variant |-> "UNK", len |-> len])
          [] ty = 1 ->
               IF len # PMType1Size THEN Err("Verify@len")
               ELSE IF at + PMType1Size - 1 > PartMapArea THEN Err("Eof")
               ELSE Ok(at + PMType1Size, [variant |-> "Type1", len |-> len])
          [] ty = 2 ->
               IF len # PMType2Size THEN Err("Verify@len")
               ELSE IF at + PMType2Size - 1 > PartMapArea THEN Err("Eof")
               ELSE Ok(at + PMType2Size,
                       [variant |-> "Type2", len |-> len,
                        meta_file_loc |->
                            W32(PMByte(pm, at + MetaFileLocOffset + 2)
                                  + 256 * PMByte(pm, at + MetaFileLocOffset + 3),
                                PMByte(pm, at + MetaFileLocOffset)
                                  + 256 * PMByte(pm, at + MetaFileLocOffset + 1))])
          [] OTHER -> Err("Switch@part_map")

\* #[nom(Count = "num_part_maps")] pub part_maps: Vec<PartMap>
RECURSIVE PartMaps_parse(_, _, _, _)
PartMaps_parse(pm, at, count, checks) ==
    IF count = 0 THEN Ok(at, <<>>)
    ELSE LET e == PartMap_parse(pm, at, checks)
         IN  IF ~e.ok THEN e
             ELSE LET r == PartMaps_parse(pm, e.rest, count - 1, checks)
                  IN  IF ~r.ok THEN r ELSE Ok(r.rest, <<e.val>> \o r.val)

LVD_parse(b, checks) ==
    LET t == TagVerify(b, "LVD")
    IN  IF ~t.ok THEN t
        ELSE IF b.lbs # BLOCKSIZE THEN Err("Verify@lbs")
        ELSE LET m == PartMaps_parse(b.part_maps, 1, b.num_part_maps, checks)
             IN  IF ~m.ok THEN m
                 ELSE [ok |-> TRUE,
                       val |-> [tag |-> t.val, vds_num |-> b.vds_num,
                                lbs |-> b.lbs,
                                lv_contents_use |-> b.lv_contents_use,
                                num_part_maps |-> b.num_part_maps,
                                part_maps |-> m.val]]

(***************************************************************************)
(* src/file.rs: descriptors                                                *)
(***************************************************************************)
\* enum FileTagID (repr u16)
FileTagID_parse(raw) ==
    CASE raw = 8 -> [ok |-> TRUE, val |-> "TD"]
      [] raw = 256 -> [ok |-> TRUE, val |-> "FSD"]
      [] raw = 257 -> [ok |-> TRUE, val |-> "FID"]
      [] raw = 258 -> [ok |-> TRUE, val |-> "AED"]
      [] raw = 259 -> [ok |-> TRUE, val |-> "IE"]
      [] raw = 260 -> [ok |-> TRUE, val |-> "TE"]
      [] raw = 261 -> [ok |-> TRUE, val |-> "FE"]
      [] raw = 262 -> [ok |-> TRUE, val |-> "EAHD"]
      [] raw = 263 -> [ok |-> TRUE, val |-> "USE"]
      [] raw = 264 -> [ok |-> TRUE, val |-> "SBD"]
      [] raw = 265 -> [ok |-> TRUE, val |-> "PIE"]
      [] raw = 266 -> [ok |-> TRUE, val |-> "EFE"]
      [] OTHER -> Err("Switch@tag_id")

\* struct FileTag
FileTag_parse(b) ==
    LET id == FileTagID_parse(b.tag_id)
    IN  IF id.ok THEN [ok |-> TRUE, val |-> [tag_id |-> id.val]] ELSE id

\* #[nom(Verify = "tag.tag_id == FileTagID::X")] pub tag: FileTag
FileTagVerify(b, kind) ==
    LET t == FileTag_parse(b)
    IN  IF ~t.ok THEN t
        ELSE IF t.val.tag_id # kind THEN Err("Verify@tag")
        ELSE t

FSD_parse(b) ==
    LET t == FileTagVerify(b, "FSD")
    IN  IF ~t.ok THEN t
        ELSE [ok |-> TRUE,
              val |-> [tag |-> t.val,
                       root_dir_icb |-> LongAD_parse_le(b.root_dir_icb).val]]

\* FID._padding: Count = 4 * ((fid_len + impl_len + 38 + 3) / 4)
\*                       - (fid_len + impl_len + 38)
FIDPadding(fid_len, impl_len) ==
    4 * ((fid_len + impl_len + 38 + 3) \div 4) - (fid_len + impl_len + 38)

FID_parse(b) ==
    LET t == FileTagVerify(b, "FID")
    IN  IF ~t.ok THEN t
        ELSE [ok |-> TRUE,
              val |-> [tag |-> t.val, fid_len |-> b.fid_len,
                       impl_len |-> b.impl_len,
                       padding |-> FIDPadding(b.fid_len, b.impl_len)]]

AED_parse(b) ==
    LET t == FileTagVerify(b, "AED")
    IN  IF ~t.ok THEN t ELSE [ok |-> TRUE, val |-> [tag |-> t.val]]

\* enum FileType (repr u8): 0..13, 250, 251
FileType_parse(raw) ==
    CASE raw = 0 -> [ok |-> TRUE, val |-> "UNK"]
      [] raw = 1 -> [ok |-> TRUE, val |-> "USE"]
      [] raw = 2 -> [ok |-> TRUE, val |-> "PIE"]
      [] raw = 3 -> [ok |-> TRUE, val |-> "IE"]
      [] raw = 4 -> [ok |-> TRUE, val |-> "DIR"]
      [] raw = 5 -> [ok |-> TRUE, val |-> "BYTES"]
      [] raw = 6 -> [ok |-> TRUE, val |-> "BLOCKDEV"]
      [] raw = 7 -> [ok |-> TRUE, val |-> "CHARDEV"]
      [] raw = 8 -> [ok |-> TRUE, val |-> "EXTATTR"]
      [] raw = 9 -> [ok |-> TRUE, val |-> "FIFO"]
      [] raw = 10 -> [ok |-> TRUE, val |-> "SOCK"]
      [] raw = 11 -> [ok |-> TRUE, val |-> "TE"]
      [] raw = 12 -> [ok |-> TRUE, val |-> "SYMLINK"]
      [] raw = 13 -> [ok |-> TRUE, val |-> "STREAMDIR"]
      [] raw = 250 -> [ok |-> TRUE, val |-> "METAMAIN"]
      [] raw = 251 -> [ok |-> TRUE, val |-> "METAMIRROR"]
      [] OTHER -> Err("Switch@file_type")

\* the bytes of a block after the fixed part of an ICB with a FileEntry:
\* FileTag (16) + ICBTag (20) + FileEntry up to _ad_len (140)
ICBFixedSize == 176
FileEntryArea == BLOCKSIZE - ICBFixedSize

\* struct FileEntry: ex_attrs (Count = _ea_len), alloc_descs (Count = _ad_len)
FileEntry_parse(b) ==
    IF b.ea_len + b.ad_len > FileEntryArea THEN Err("Count")
    ELSE [ok |-> TRUE,
          val |-> [alloc_descs |->
                     [k \in 1..b.ad_len |->
                        IF k <= Len(b.ad_area) THEN b.ad_area[k] ELSE 0]]]

FileEntryTypes ==
    {"UNK", "DIR", "BYTES", "BLOCKDEV", "CHARDEV", "EXTATTR", "FIFO", "SOCK",
     "METAMAIN", "METAMIRROR"}

\* ICBBody::parse_le
ICBBody_parse_le(b, selector) ==
    IF selector = "TE" THEN [ok |-> TRUE, val |-> [variant |-> "Terminal"]]
    ELSE IF selector \in FileEntryTypes
    THEN LET e == FileEntry_parse(b)
         IN  IF ~e.ok THEN e
             ELSE [ok |-> TRUE, val |-> [variant |-> "File",
                                         alloc_descs |-> e.val.alloc_descs]]
    ELSE Err("Fail")

\* struct ICB: pub tag: FileTag carries no Verify
ICB_parse(b) ==
    LET t == FileTag_parse(b)
        ft == FileType_parse(b.file_type)
    IN  IF ~t.ok THEN t
        ELSE IF ~ft.ok THEN ft
        ELSE LET body == ICBBody_parse_le(b, ft.val)
             IN  IF ~body.ok THEN body
                 ELSE [ok |-> TRUE,
                       val |-> [tag |-> t.val,
                                icb_tag |-> [file_type |-> ft.val,
                                             flags |-> b.flags],
                                body |-> body.val]]

(***************************************************************************)
(* src/lib.rs: address arithmetic                                          *)
(***************************************************************************)
AVDSector == 256

\* `a + b` / `a += b` on u32 under the build's overflow behaviour
Add32(a, b, checks) ==
    LET r == AddU32(a, b)
    IN  IF r.ovf /\ checks THEN Panic("attempt to add with overflow")
        ELSE [ok |-> TRUE, val |-> r.val]

\* `x as u64 * BLOCKSIZE`: exact, a u32 times 2048 is below 2^64
MulBlockSize64(x) == ShlN(x, 11)

\* `loc * BLOCKSIZE as u32` on u32 under the build's overflow behaviour
MulBlockSize32(x, checks) ==
    LET r == ShlU32(x, 11)
    IN  IF r.ovf /\ checks THEN Panic("attempt to multiply with overflow")
        ELSE [ok |-> TRUE, val |-> r.val]

\* get_root_dir: `let mut loc = part_start + lbn; if let Some(m) = meta
\* { loc += m }`, the shape of both fsd_loc and icb_loc
PartitionSector(part_start, lbn, meta, checks) ==
    LET s == Add32(part_start, lbn, checks)
    IN  IF ~s.ok \/ ~meta.some THEN s ELSE Add32(s.val, meta.val, checks)

\* the block number an allocation descriptor carries
AllocDescLoc(ad) ==
    CASE ad.variant = "SHORT" -> ad.ad.pos
      [] ad.variant = "LONG" -> ad.ad.loc.lbn
      [] ad.variant = "EXTENDED" -> ad.ad.ext_loc.lbn

\* UDF::alloc_desc_to_offset_len: (loc, len) as u32, or a panic
alloc_desc_to_offset_len(part_start, meta, ad, checks) ==
    LET s1 == Add32(AllocDescLoc(ad), part_start, checks)
        s2 == IF ~s1.ok \/ ~meta.some THEN s1
              ELSE Add32(s1.val, meta.val, checks)
        off == IF ~s2.ok THEN s2 ELSE MulBlockSize32(s2.val, checks)
    IN  IF ~off.ok THEN off
        ELSE [ok |-> TRUE, val |-> [loc |-> off.val, len |-> ad.ad.len]]

(***************************************************************************)
(* src/lib.rs: UDF::new                                                    *)
(***************************************************************************)
\* io.seek(n * BLOCKSIZE); io.read(&mut buf): the block at sector n.  The
\* byte source is sparse: a sector the image does not record reads as zeros.
ReadBlock(s) == IF s \in DOMAIN image THEN image[s] ELSE ZeroBlock

NoCall == [call |-> "none"]

Fail(call, res) ==
    /\ pc' = IF res.panic THEN "panicked" ELSE "failed"
    /\ ret' = [call |-> call, res |-> res]

\* lines 27-42: read the anchor, set up the scan range
New_ReadAVD ==
    /\ pc = "start"
    /\ LET avd == AVD_parse(ReadBlock(U(AVDSector)))
       IN  IF ~avd.ok
           THEN /\ Fail("new", Err("error parsing AVD"))
                /\ UNCHANGED <<n, vds_end, reads>>
           ELSE LET vds_start == avd.val.main_vds.loc
                    e == Add32(vds_start, avd.val.main_vds.len, overflow_checks)
                IN  IF ~e.ok
                    THEN /\ Fail("new", e)
                         /\ reads' = <<[n |-> vds_start, line |-> 35]>>
                         /\ UNCHANGED <<n, vds_end>>
                    ELSE /\ n' = vds_start
                         /\ vds_end' = e.val
                         /\ reads' = <<[n |-> vds_start, line |-> 35]>>
                         /\ pc' = "scan"
                         /\ UNCHANGED ret
    /\ UNCHANGED <<overflow_checks, image, o_pvd, o_pd, o_lvd, udf, inp, out>>

InScan == pc = "scan" /\ LtN(n, vds_end)

ScanTag == Tag_parse(ReadBlock(n))

ScanRead == reads' = Append(reads, [n |-> n, line |-> 46])

ScanNext == n' = Wrap32(AddN(n, U(1)))

\* line 44: the range vds_start..vds_end is exhausted
Scan_End ==
    /\ pc = "scan"
    /\ ~LtN(n, vds_end)
    /\ pc' = "collect"
    /\ UNCHANGED <<overflow_checks, image, n, vds_end, o_pvd, o_pd, o_lvd,
                   reads, udf, ret, inp, out>>

\* line 47: the tag does not parse
Scan_TagErr ==
    /\ InScan
    /\ ~ScanTag.ok
    /\ ScanRead
    /\ Fail("new", Err("error parsing VDS tag"))
    /\ UNCHANGED <<overflow_checks, image, n, vds_end, o_pvd, o_pd, o_lvd,
                   udf, inp, out>>

\* the tag kinds whose match arm is `break`
Mut_BreakTags == {"TD", "VD", "USD"}
BreakTags == {"TD", "VD"}

\* lines 53-58: TagID::TD and TagID::VD break out of the loop
Scan_Break ==
    /\ InScan
    /\ ScanTag.ok
    /\ ScanTag.val.tag_id \in BreakTags
    /\ ScanRead
    /\ pc' = "collect"
    /\ UNCHANGED <<overflow_checks, image, n, vds_end, o_pvd, o_pd, o_lvd,
                   udf, ret, inp, out>>

\* `o_x = Some(x)`: what the slot holds after a descriptor of its kind
Mut_Retain(slot, desc) == IF slot.some THEN slot ELSE Some(desc)
Retain(slot, desc) == Some(desc)

\* lines 59-63
Scan_PVD ==
    /\ InScan
    /\ ScanTag.ok
    /\ ScanTag.val.tag_id = "PVD"
    /\ ScanRead
    /\ LET pvd == PVD_parse(ReadBlock(n))
       IN  IF ~pvd.ok
           THEN /\ Fail("new", Panic("unwrap: PVD::parse"))
                /\ UNCHANGED <<n, o_pvd>>
           ELSE /\ o_pvd' = Retain(o_pvd, pvd.val)
                /\ ScanNext
                /\ UNCHANGED <<pc, ret>>
    /\ UNCHANGED <<overflow_checks, image, vds_end, o_pd, o_lvd, udf, inp, out>>

\* lines 64-79
Scan_PD ==
    /\ InScan
    /\ ScanTag.ok
    /\ ScanTag.val.tag_id = "PD"
    /\ ScanRead
    /\ LET pd == PD_parse(ReadBlock(n))
       IN  IF ~pd.ok
           THEN /\ Fail("new", Err("error parsing PD."))
                /\ UNCHANGED <<n, o_pd>>
           ELSE IF pd.val.part_cont.ident = NotUtf8
           THEN /\ Fail("new", Panic("unwrap: from_utf8"))
                /\ UNCHANGED <<n, o_pd>>
           ELSE /\ o_pd' = Retain(o_pd, pd.val)
                /\ ScanNext
                /\ UNCHANGED <<pc, ret>>
    /\ UNCHANGED <<overflow_checks, image, vds_end, o_pvd, o_lvd, udf, inp, out>>

\* lines 80-84
Scan_LVD ==
    /\ InScan
    /\ ScanTag.ok
    /\ ScanTag.val.tag_id = "LVD"
    /\ ScanRead
    /\ LET lvd == LVD_parse(ReadBlock(n), overflow_checks)
       IN  IF ~lvd.ok
           THEN /\ Fail("new", Panic("unwrap: LVD::parse"))
                /\ UNCHANGED <<n, o_lvd>>
           ELSE /\ o_lvd' = Retain(o_lvd, lvd.val)
                /\ ScanNext
                /\ UNCHANGED <<pc, ret>>
    /\ UNCHANGED <<overflow_checks, image, vds_end, o_pvd, o_pd, udf, inp, out>>

\* line 85: every other kind
Scan_Skip ==
    /\ InScan
    /\ ScanTag.ok
    /\ ScanTag.val.tag_id \notin BreakTags \cup {"PVD", "PD", "LVD"}
    /\ ScanRead
    /\ ScanNext
    /\ UNCHANGED <<overflow_checks, image, pc, vds_end, o_pvd, o_pd, o_lvd,
                   udf, ret, inp, out>>

\* lines 96-105: the meta_file_loc of the last Type2 partition map, if any
RECURSIVE MetaFileLoc(_, _)
MetaFileLoc(part_maps, acc) ==
    IF part_maps = <<>> THEN acc
    ELSE MetaFileLoc(Tail(part_maps),
                     IF Head(part_maps).variant = "Type2"
                     THEN Some(Head(part_maps).meta_file_loc)
                     ELSE acc)

\* `alloc_descs.get(0)` and the match on it: the offset the first descriptor
\* gives, None when there is no descriptor
Mut_FirstDescOffset(alloc_descs) ==
    IF alloc_descs = <<>> THEN Some(Zero) ELSE Some(AllocDescLoc(alloc_descs[1]))
FirstDescOffset(alloc_descs) ==
    IF alloc_descs = <<>> THEN None ELSE Some(AllocDescLoc(alloc_descs[1]))

\* lines 93-121: the metadata offset, Ok(Option<u32>) or a panic
MetadataOffset(pd, lvd) ==
    LET meta_file_loc == MetaFileLoc(lvd.part_maps, None)
    IN  IF ~meta_file_loc.some THEN [ok |-> TRUE, val |-> None]
        ELSE
        LET s == Add32(pd.part_start, meta_file_loc.val, overflow_checks)
        IN  IF ~s.ok THEN s
            ELSE
            LET meta_file == ICB_parse(ReadBlock(s.val))
            IN  IF ~meta_file.ok THEN Panic("unwrap: ICB::parse")
                ELSE
                LET alloc_descs == ICB_get_alloc_descs(meta_file.val)
                IN  IF ~alloc_descs.ok THEN alloc_descs
                    ELSE [ok |-> TRUE, val |-> FirstDescOffset(alloc_descs.val)]

\* lines 89-91: the three `ok_or(..)?`, in this order
Mut_RequiredDescs(pvd, pd, lvd) ==
    IF ~pvd.some THEN Err("no primary volume descriptor found")
    ELSE IF ~lvd.some THEN Err("no local volume descriptor found")
    ELSE [ok |-> TRUE,
          val |-> [pvd |-> pvd.val,
                   pd |-> IF pd.some THEN pd.val
                          ELSE [tag |-> [tag_id |-> "PD"], vds_num |-> 0,
                                part_cont |-> [ident |-> ""],
                                part_start |-> Zero],
                   lvd |-> lvd.val]]
RequiredDescs(pvd, pd, lvd) ==
    IF ~pvd.some THEN Err("no primary volume descriptor found")
    ELSE IF ~pd.some THEN Err("no partition descriptor found")
    ELSE IF ~lvd.some THEN Err("no local volume descriptor found")
    ELSE [ok |-> TRUE, val |-> [pvd |-> pvd.val, pd |-> pd.val, lvd |-> lvd.val]]

\* lines 89-129: the required descriptors, the metadata offset, Ok(Self {..})
New_Finish ==
    /\ pc = "collect"
    /\ LET d == RequiredDescs(o_pvd, o_pd, o_lvd)
       IN  IF ~d.ok THEN Fail("new", d) /\ UNCHANGED udf
           ELSE LET m == MetadataOffset(d.val.pd, d.val.lvd)
                IN  IF ~m.ok THEN Fail("new", m) /\ UNCHANGED udf
                    ELSE /\ udf' = Some([primary_vol_desc |-> d.val.pvd,
                                         part_desc |-> d.val.pd,
                                         logical_vol_desc |-> d.val.lvd,
                                         meta_file_offset |-> m.val])
                         /\ pc' = "ready"
                         /\ ret' = [call |-> "new", res |-> [ok |-> TRUE]]
    /\ UNCHANGED <<overflow_checks, image, n, vds_end, o_pvd, o_pd, o_lvd,
                   reads, inp, out>>

(***************************************************************************)
(* src/lib.rs: the session's methods                                       *)
(***************************************************************************)
\* `if root_ad.len() > 1 { Err(..)? }`
Mut_TooManyExtents(root_ad) == Len(root_ad) > 2
TooManyExtents(root_ad) == Len(root_ad) > 1

\* UDF::get_root_dir: the result, and the byte offsets it seeks to
get_root_dir(u) ==
    LET part_start == u.part_desc.part_start
        meta == u.meta_file_offset
        fsd_ext == LongAD_parse_le(u.logical_vol_desc.lv_contents_use)
    IN  IF ~fsd_ext.ok
        THEN [res |-> Err("error parsing FSD pointer."), seeks |-> <<>>]
        ELSE
        LET fsd_loc == PartitionSector(part_start, fsd_ext.val.loc.lbn, meta,
                                       overflow_checks)
        IN  IF ~fsd_loc.ok THEN [res |-> fsd_loc, seeks |-> <<>>]
            ELSE
            LET s1 == <<MulBlockSize64(fsd_loc.val)>>
                fsd == FSD_parse(ReadBlock(fsd_loc.val))
            IN  IF ~fsd.ok THEN [res |-> Err("error parsing FSD"), seeks |-> s1]
                ELSE
                LET icb_loc == PartitionSector(part_start,
                                               fsd.val.root_dir_icb.loc.lbn,
                                               meta, overflow_checks)
                IN  IF ~icb_loc.ok THEN [res |-> icb_loc, seeks |-> s1]
                    ELSE
                    LET s2 == Append(s1, MulBlockSize64(icb_loc.val))
                        root_entry == ICB_parse(ReadBlock(icb_loc.val))
                    IN  IF ~root_entry.ok
                        THEN [res |-> Err("error parsing root ICB"), seeks |-> s2]
                        ELSE
                        LET root_ad == ICB_get_alloc_descs(root_entry.val)
                        IN  IF ~root_ad.ok THEN [res |-> root_ad, seeks |-> s2]
                            ELSE IF TooManyExtents(root_ad.val)
                            THEN [res |-> Err("multiple allocation descriptors for one ICB not supported yet"),
                                  seeks |-> s2]
                            ELSE [res |-> [ok |-> TRUE, val |-> root_entry.val],
                                  seeks |-> s2]

Return(call, r) ==
    /\ ret' = [call |-> call, res |-> r.res, seeks |-> r.seeks]
    /\ pc' = IF ~r.res.ok /\ r.res.panic THEN "panicked" ELSE "ready"

GetRootDir ==
    /\ pc = "ready"
    /\ Return("get_root_dir", get_root_dir(udf.val))
    /\ UNCHANGED <<overflow_checks, image, n, vds_end, o_pvd, o_pd, o_lvd,
                   reads, udf, inp, out>>

AllocDescToOffsetLen(ad) ==
    /\ pc = "ready"
    /\ Return("alloc_desc_to_offset_len",
              [res |-> alloc_desc_to_offset_len(udf.val.part_desc.part_start,
                                                udf.val.meta_file_offset, ad,
                                                overflow_checks),
               seeks |-> <<>>])
    /\ UNCHANGED <<overflow_checks, image, n, vds_end, o_pvd, o_pd, o_lvd,
                   reads, udf, inp, out>>

\* UDF::read_into_buf: seek to loc, read_exact len bytes.  The bytes read
\* are named by their place in the image.
read_into_buf(u, ad) ==
    LET r == alloc_desc_to_offset_len(u.part_desc.part_start,
                                      u.meta_file_offset, ad, overflow_checks)
    IN  IF ~r.ok THEN [res |-> r, seeks |-> <<>>]
        ELSE [res |-> [ok |-> TRUE,
                       val |-> [from |-> r.val.loc, len |-> r.val.len]],
              seeks |-> <<r.val.loc>>]

ReadIntoBuf(ad) ==
    /\ pc = "ready"
    /\ Return("read_into_buf", read_into_buf(udf.val, ad))
    /\ UNCHANGED <<overflow_checks, image, n, vds_end, o_pvd, o_pd, o_lvd,
                   reads, udf, inp, out>>

(***************************************************************************)
(* Images: the byte sources the session is opened on                       *)
(***************************************************************************)
MaxVDS == 4      \* blocks in the Volume Descriptor Sequence
MaxDescs == 3    \* allocation descriptors in the root ICB

U32Max == W32(65535, 65535)

\* the recorded bytes of the descriptors, as the layouts of file.rs and
\* volume.rs lay them out
EncShortAD(len, pos) == EncU32(len) \o EncU32(pos)
EncLongAD(len, lbn) == EncU32(len) \o EncU32(lbn) \o Zeros(8)
EncExtAD(len, rec_len, lbn) ==
    EncU32(len) \o EncU32(rec_len) \o Zeros(4) \o EncU32(lbn) \o Zeros(4)
EncPM1(len) == <<1, len, 1, 0, 0, 0>>
EncPM2(meta_file_loc) == <<2, 64>> \o Zeros(38) \o EncU32(meta_file_loc) \o Zeros(20)
EncPMOther(ty, len) == <<ty, len>> \o [k \in 1..(len - 2) |-> 170]

RECURSIVE Concat(_)
Concat(ss) == IF ss = <<>> THEN <<>> ELSE Head(ss) \o Concat(Tail(ss))

MkImage(pairs) ==
    [s \in {p[1] : p \in pairs} |-> (CHOOSE p \in pairs : p[1] = s)[2]]

AVDBlock(loc, len) ==
    [ZeroBlock EXCEPT !.tag_id = 2, !.main_vds = [len |-> len, loc |-> loc]]

PVDBlock(k) == [ZeroBlock EXCEPT !.tag_id = 1, !.vds_num = k]

PDBlock(k, ident, start) ==
    [ZeroBlock EXCEPT !.tag_id = 5, !.vds_num = k, !.part_ident = ident,
                      !.part_start = start]

\* an LVD whose FSD pointer is block 2 of the partition
LVDBlock(k, lbs, maps) ==
    [ZeroBlock EXCEPT !.tag_id = 6, !.vds_num = k, !.lbs = lbs,
                      !.lv_contents_use = EncLongAD(U(BLOCKSIZE), U(2)),
                      !.num_part_maps = Len(maps),
                      !.part_maps = Concat(maps)]

TagOnlyBlock(raw) == [ZeroBlock EXCEPT !.tag_id = raw]

\* an FSD whose root directory ICB is block 3 of the partition
FSDBlock(raw) ==
    [ZeroBlock EXCEPT !.tag_id = raw,
                      !.root_dir_icb = EncLongAD(U(BLOCKSIZE), U(3))]

ICBBlock(raw, file_type, flags, blob) ==
    [ZeroBlock EXCEPT !.tag_id = raw, !.file_type = file_type,
                      !.flags = flags, !.ad_len = Len(blob), !.ad_area = blob]

\* k descriptors of the variant that alloc type ty selects, at blocks
\* base, base + 1, ...
DescBlob(ty, k, base) ==
    Concat([j \in 1..k |->
              CASE ty = 0 -> EncShortAD(U(BLOCKSIZE), U(base + j - 1))
                [] ty = 1 -> EncLongAD(U(BLOCKSIZE), U(base + j - 1))
                [] OTHER -> EncExtAD(U(BLOCKSIZE), U(BLOCKSIZE), U(base + j - 1))])

(* Family A: every sequence of at most MaxVDS descriptor kinds at sectors  *)
(* 32.., the k-th block carrying vds_num k (and, a PD, part_start 300+k).  *)
(* OTHER is a kind the scan has no arm for, BAD a tag_id outside TagID;    *)
(* which one depends on the position.                                      *)
VDSKinds == {"PVD", "PD", "LVD", "TD", "VD", "OTHER", "BAD"}

OtherTagRaws == <<0, 2, 4, 7, 9>>
BadTagRaws == <<10, 255, 256, 65535>>

VDSBlock(kind, k) ==
    CASE kind = "PVD" -> PVDBlock(k)
      [] kind = "PD" -> PDBlock(k, "+NSR02", U(300 + k))
      [] kind = "LVD" -> LVDBlock(k, BLOCKSIZE, <<EncPM1(6)>>)
      [] kind = "TD" -> TagOnlyBlock(8)
      [] kind = "VD" -> TagOnlyBlock(3)
      [] kind = "OTHER" -> TagOnlyBlock(OtherTagRaws[(k % Len(OtherTagRaws)) + 1])
      [] kind = "BAD" -> TagOnlyBlock(BadTagRaws[(k % Len(BadTagRaws)) + 1])

ScanImage(seq) ==
    MkImage({<<U(AVDSector), AVDBlock(U(32), U(Len(seq)))>>}
            \cup {<<U(31 + k), VDSBlock(seq[k], k)>> : k \in 1..Len(seq)})

ScanImages == {ScanImage(seq) : seq \in UNION {[1..k -> VDSKinds] : k \in 0..MaxVDS}}

(* Family B: the sequence PVD, PD (partition at 300), LVD, TD with the     *)
(* LVD's partition maps, the metadata file ICB (block 10 of the partition, *)
(* a second one at block 20), the FSD and the root ICB varied.  The FSD    *)
(* and the root ICB are recorded at blocks 2 and 3 behind every metadata   *)
(* offset the metadata ICBs can give (none, 40, 50, 60, 70).  Block 299 is *)
(* where a metadata file location of 2^32 - 1 wraps to.                    *)
PartMapTables ==
    {<<>>,
     <<EncPM1(6)>>,
     <<EncPM2(U(10))>>,
     <<EncPM1(6), EncPM2(U(10))>>,
     <<EncPMOther(0, 6), EncPM2(U(10))>>,
     <<EncPMOther(0, 9), EncPM1(6)>>,
     <<EncPMOther(3, 6), EncPM2(U(10))>>,
     <<EncPMOther(0, 1)>>,
     <<EncPM2(U(10)), EncPM2(U(20))>>,
     <<EncPM1(5)>>,
     <<EncPM2(U32Max)>>}

MetaICBs ==
    {ICBBlock(261, 250, 0, DescBlob(0, 1, 40)),
     ICBBlock(261, 250, 0, <<>>),
     ICBBlock(261, 250, 1, DescBlob(1, 2, 50)),
     ICBBlock(266, 250, 2, DescBlob(2, 1, 60)),
     ICBBlock(261, 250, 3, DescBlob(0, 1, 40)),
     ICBBlock(260, 11, 0, <<>>),
     ICBBlock(259, 3, 0, <<>>),
     ICBBlock(256, 250, 0, DescBlob(0, 1, 40)),
     ZeroBlock}

FSDBlocks == {FSDBlock(256), FSDBlock(257)}

RootICBs ==
    {ICBBlock(261, 4, ty, DescBlob(ty, k, 4)) : ty \in 0..3, k \in 0..MaxDescs}
    \cup {ICBBlock(260, 11, 0, <<>>), ICBBlock(256, 4, 0, DescBlob(0, 1, 4)),
          ICBBlock(261, 12, 0, <<>>)}

MetaOffsets == {0, 40, 50, 60, 70}

SessionImage(lbs, maps, meta, fsd, root) ==
    MkImage({<<U(AVDSector), AVDBlock(U(32), U(4))>>,
             <<U(32), PVDBlock(1)>>,
             <<U(33), PDBlock(2, "+NSR03", U(300))>>,
             <<U(34), LVDBlock(3, lbs, maps)>>,
             <<U(35), TagOnlyBlock(8)>>,
             <<U(299), ICBBlock(261, 250, 1, DescBlob(1, 1, 50))>>,
             <<U(310), meta>>,
             <<U(320), ICBBlock(261, 250, 0, DescBlob(0, 1, 70))>>}
            \cup {<<U(302 + m), fsd>> : m \in MetaOffsets}
            \cup {<<U(303 + m), root>> : m \in MetaOffsets})

SessionImages ==
    {SessionImage(BLOCKSIZE, maps, meta, FSDBlock(256),
                  ICBBlock(261, 4, 0, DescBlob(0, 1, 4)))
       : maps \in PartMapTables, meta \in MetaICBs}
    \cup {SessionImage(BLOCKSIZE, maps, ICBBlock(261, 250, 0, DescBlob(0, 1, 40)),
                       fsd, root)
            : maps \in {<<>>, <<EncPM2(U(10))>>}, fsd \in FSDBlocks,
              root \in RootICBs}
    \cup {SessionImage(512, <<>>, ZeroBlock, FSDBlock(256), ZeroBlock)}

(* Family C: anchors and partitions at the edge of the u32 range, and      *)
(* partition identifiers the scan warns about or cannot read.              *)
EdgeImages ==
    {MkImage({<<U(AVDSector), TagOnlyBlock(1)>>}),
     MkImage({<<U(AVDSector), AVDBlock(U32Max, U(2))>>,
              <<U32Max, PVDBlock(1)>>}),
     \* a main VDS extent of 2048 bytes: one sector
     MkImage({<<U(AVDSector), AVDBlock(U(32), U(BLOCKSIZE))>>,
              <<U(32), PVDBlock(1)>>,
              <<U(33), PDBlock(2, "+NSR02", U(300))>>,
              <<U(34), LVDBlock(3, BLOCKSIZE, <<>>)>>,
              <<U(35), TagOnlyBlock(8)>>})}
    \cup {MkImage({<<U(AVDSector), AVDBlock(U(32), U(4))>>,
                   <<U(32), PVDBlock(1)>>,
                   <<U(33), PDBlock(2, ident, start)>>,
                   <<U(34), LVDBlock(3, BLOCKSIZE, <<>>)>>,
                   <<Zero, FSDBlock(256)>>,
                   <<U(1), ICBBlock(261, 4, 0, DescBlob(0, 1, 4))>>})
            : ident \in {"+NSR02", "*UDF Sparable", NotUtf8},
              start \in {U(300), W32(65535, 65534)}}

Images == ScanImages \cup SessionImages \cup EdgeImages

\* the allocation descriptors a caller hands to read_into_buf
CallerADs ==
    {AllocDesc_parse(EncShortAD(U(BLOCKSIZE), U(4)), "SHORT").val,
     AllocDesc_parse(EncLongAD(U(100), W32(32, 0)), "LONG").val,
     AllocDesc_parse(EncExtAD(U(7), U(7), U32Max), "EXTENDED").val}

(***************************************************************************)
(* The session: UDF::new on an image, then the methods in any order        *)
(***************************************************************************)
Init ==
    /\ overflow_checks \in BOOLEAN
    /\ image \in Images
    /\ pc = "start"
    /\ n = Zero
    /\ vds_end = Zero
    /\ o_pvd = None
    /\ o_pd = None
    /\ o_lvd = None
    /\ reads = <<>>
    /\ udf = None
    /\ ret = NoCall
    /\ inp = NoCall
    /\ out = NoCall

Next ==
    \/ New_ReadAVD
    \/ Scan_End
    \/ Scan_TagErr
    \/ Scan_Break
    \/ Scan_PVD
    \/ Scan_PD
    \/ Scan_LVD
    \/ Scan_Skip
    \/ New_Finish
    \/ GetRootDir
    \/ \E ad \in CallerADs : AllocDescToOffsetLen(ad)
    \/ \E ad \in CallerADs : ReadIntoBuf(ad)

Spec == Init /\ [][Next]_vars

(***************************************************************************)
(* The decoders applied on their own                                       *)
(***************************************************************************)
MaxBlobLen == 41   \* bytes in an allocation-descriptor blob

Idle ==
    /\ image = <<>>
    /\ pc = "idle"
    /\ n = Zero
    /\ vds_end = Zero
    /\ o_pvd = None
    /\ o_pd = None
    /\ o_lvd = None
    /\ reads = <<>>
    /\ udf = None
    /\ ret = NoCall
    /\ out = NoCall

Apply(call, res) ==
    /\ out' = [call |-> call, res |-> res]
    /\ UNCHANGED <<sessionVars, inp>>

(* SpecDecode: one block, every top-level decoder *)
TagRaws == 0..10 \cup {255} \cup 256..267

DecodeBodies ==
    {ZeroBlock,
     [ZeroBlock EXCEPT !.vds_num = 1, !.lbs = BLOCKSIZE, !.num_part_maps = 1,
                       !.part_maps = EncPM1(6), !.part_ident = "+NSR02",
                       !.file_type = 4, !.ad_len = ShortADSize,
                       !.ad_area = DescBlob(0, 1, 4), !.fid_len = 10],
     [ZeroBlock EXCEPT !.file_type = 11, !.lbs = 512, !.impl_len = 3]}

InitDecode ==
    /\ Idle
    /\ overflow_checks \in BOOLEAN
    /\ inp \in {[block |-> [b EXCEPT !.tag_id = raw]]
                  : raw \in TagRaws, b \in DecodeBodies}

Decode_AVD ==
    /\ pc = "idle"
    /\ Apply("AVD", AVD_parse(inp.block))

Decode_PVD ==
    /\ pc = "idle"
    /\ Apply("PVD", PVD_parse(inp.block))

Decode_PD ==
    /\ pc = "idle"
    /\ Apply("PD", PD_parse(inp.block))

Decode_LVD ==
    /\ pc = "idle"
    /\ Apply("LVD", LVD_parse(inp.block, overflow_checks))

Decode_TD ==
    /\ pc = "idle"
    /\ Apply("TD", TD_parse(inp.block))

Decode_FSD ==
    /\ pc = "idle"
    /\ Apply("FSD", FSD_parse(inp.block))

Decode_FID ==
    /\ pc = "idle"
    /\ Apply("FID", FID_parse(inp.block))

Decode_AED ==
    /\ pc = "idle"
    /\ Apply("AED", AED_parse(inp.block))

Decode_ICB ==
    /\ pc = "idle"
    /\ Apply("ICB", ICB_parse(inp.block))

NextDecode ==
    \/ Decode_AVD
    \/ Decode_PVD
    \/ Decode_PD
    \/ Decode_LVD
    \/ Decode_TD
    \/ Decode_FSD
    \/ Decode_FID
    \/ Decode_AED
    \/ Decode_ICB

SpecDecode == InitDecode /\ [][NextDecode]_vars

(* SpecAlloc: one ICB, get_alloc_descs and the three descriptor parsers on *)
(* its allocation-descriptor blob                                          *)
PatternBlob(len) == [j \in 1..len |-> (37 * j + 11) % 256]

\* 32-bit values around the 2-bit / 30-bit split of the packed length field
EdgeHalves == {0, 1, 16383, 16384, 32767, 32768, 49151, 49152, 65535}
EdgeWords == {W32(hi, lo) : hi \in EdgeHalves, lo \in {0, 1, 65535}}

AllocFlags == {0, 1, 2, 3, 7, 15, 16, 17, 18, 19, 65522, 65535}

ICBValue(file_type, flags, blob) ==
    ICB_parse(ICBBlock(261, file_type, flags, blob)).val

InitAlloc ==
    /\ Idle
    /\ overflow_checks \in BOOLEAN
    /\ inp \in {[icb |-> ICBValue(ft, fl, PatternBlob(len))]
                  : ft \in {4, 5, 11}, fl \in AllocFlags, len \in 0..MaxBlobLen}
               \cup {[icb |-> ICBValue(5, fl, EncExtAD(v, w, U(4)))]
                       : fl \in {0, 1, 2}, v \in EdgeWords, w \in EdgeWords}

GetAllocDescs ==
    /\ pc = "idle"
    /\ Apply("get_alloc_descs", ICB_get_alloc_descs(inp.icb))

ParseShortAD ==
    /\ inp.icb.body.variant = "File"
    /\ Apply("ShortAD::parse_le", ShortAD_parse_le(inp.icb.body.alloc_descs))

ParseLongAD ==
    /\ inp.icb.body.variant = "File"
    /\ Apply("LongAD::parse_le", LongAD_parse_le(inp.icb.body.alloc_descs))

ParseExtAD ==
    /\ inp.icb.body.variant = "File"
    /\ Apply("ExtAD::parse_le", ExtAD_parse_le(inp.icb.body.alloc_descs))

NextAlloc ==
    \/ GetAllocDescs
    \/ ParseShortAD
    \/ ParseLongAD
    \/ ParseExtAD

SpecAlloc == InitAlloc /\ [][NextAlloc]_vars

(* SpecAddr: one partition start, block number and metadata offset, the    *)
(* address computations of get_root_dir and alloc_desc_to_offset_len       *)
EdgeU32 == {Zero, U(1), U(300), W32(31, 65535), W32(32, 0), W32(32768, 0), U32Max}

InitAddr ==
    /\ Idle
    /\ overflow_checks \in BOOLEAN
    /\ inp \in [part_start : EdgeU32, lbn : EdgeU32,
                meta : {None} \cup {Some(m) : m \in EdgeU32}]

\* get_root_dir, lines 136-141 and 144-148: the sector, then the seek offset
ResolveSector ==
    /\ pc = "idle"
    /\ LET loc == PartitionSector(inp.part_start, inp.lbn, inp.meta,
                                  overflow_checks)
       IN  Apply("get_root_dir",
                 IF ~loc.ok THEN loc
                 ELSE [ok |-> TRUE, val |-> MulBlockSize64(loc.val)])

\* alloc_desc_to_offset_len on a descriptor at block inp.lbn
ResolveExtent ==
    /\ pc = "idle"
    /\ \E variant \in {"SHORT", "LONG", "EXTENDED"} :
        LET blob == CASE variant = "SHORT" -> EncShortAD(U(BLOCKSIZE), inp.lbn)
                      [] variant = "LONG" -> EncLongAD(U(BLOCKSIZE), inp.lbn)
                      [] OTHER -> EncExtAD(U(BLOCKSIZE), U(BLOCKSIZE), inp.lbn)
            r == alloc_desc_to_offset_len(inp.part_start, inp.meta,
                                          AllocDesc_parse(blob, variant).val,
                                          overflow_checks)
        IN  Apply("alloc_desc_to_offset_len",
                  IF ~r.ok THEN r ELSE [ok |-> TRUE, val |-> r.val.loc])

NextAddr ==
    \/ ResolveSector
    \/ ResolveExtent

SpecAddr == InitAddr /\ [][NextAddr]_vars

(***************************************************************************)
(* Claims                                                                  *)
(***************************************************************************)
\* the blocks the scan loop has read (line 46), in scan order
ScanReads == SelectSeq(reads, LAMBDA r : r.line = 46)

\* the tag kind of the i-th block the scan read, "?" if its tag_id is not
\* a TagID
ScanKind(i) ==
    LET t == Tag_parse(ReadBlock(ScanReads[i].n))
    IN  IF t.ok THEN t.val.tag_id ELSE "?"

ScanIdx(kind) == {i \in 1..Len(ScanReads) : ScanKind(i) = kind}

FirstIdx(kind) == CHOOSE i \in ScanIdx(kind) : \A j \in ScanIdx(kind) : i <= j
LastIdx(kind) == CHOOSE i \in ScanIdx(kind) : \A j \in ScanIdx(kind) : j <= i

ScanBlock(i) == ReadBlock(ScanReads[i].n)

VolumeDecoders == {"AVD", "PVD", "PD", "LVD", "TD"}

\* the tag kinds each decoder is for; for an ICB the kinds of the entries
\* an ICB holds (the file-entry kinds FE and EFE among them)
ExpectedKinds(decoder) ==
    IF decoder = "ICB" THEN {"IE", "TE", "FE", "EFE"} ELSE {decoder}

DecodedTag(decoder) ==
    IF decoder \in VolumeDecoders THEN Tag_parse(inp.block)
    ELSE FileTag_parse(inp.block)

\* C1: every top-level decoder, ICB included, given a block whose tag
\* header decodes to a kind the decoder is not for, fails on the tag
\* (TagMismatch, nom's Verify at the tag) and decodes nothing after it.
C1_TagMismatchFails ==
    (out # NoCall /\ DecodedTag(out.call).ok
       /\ DecodedTag(out.call).val.tag_id \notin ExpectedKinds(out.call))
    => (~out.res.ok /\ out.res.err = "Verify@tag")

MissingDescriptor ==
    {Err("no primary volume descriptor found"),
     Err("no partition descriptor found"),
     Err("no local volume descriptor found")}

\* C2: a session exists only if the scan found a PVD, a PD and an LVD, and
\* holds descriptors the scan decoded from blocks it read; when the scan has
\* ended with one of the three absent, UDF::new returns a MissingDescriptor
\* error and there is no session.
C2_SessionNeedsAllThree ==
    /\ [](udf.some =>
            /\ ScanIdx("PVD") # {} /\ ScanIdx("PD") # {} /\ ScanIdx("LVD") # {}
            /\ \E i \in ScanIdx("PVD") :
                 udf.val.primary_vol_desc = PVD_parse(ScanBlock(i)).val
            /\ \E i \in ScanIdx("PD") :
                 udf.val.part_desc = PD_parse(ScanBlock(i)).val
            /\ \E i \in ScanIdx("LVD") :
                 udf.val.logical_vol_desc
                   = LVD_parse(ScanBlock(i), overflow_checks).val)
    /\ [][(pc = "collect" /\ (~o_pvd.some \/ ~o_pd.some \/ ~o_lvd.some))
            => (pc' = "failed" /\ ~udf'.some /\ ret'.call = "new"
                /\ ret'.res \in MissingDescriptor)]_vars

\* UDF::new has returned the error for a missing PD after a scan that found
\* a PVD and an LVD
C2_Witness ==
    /\ pc = "failed"
    /\ o_pvd.some /\ o_lvd.some /\ ~o_pd.some
    /\ ret = [call |-> "new", res |-> Err("no partition descriptor found")]

\* C3 as stated: the session holds the first PVD, PD and LVD in scan order.
C3_RetainsFirst ==
    udf.some =>
        /\ udf.val.primary_vol_desc = PVD_parse(ScanBlock(FirstIdx("PVD"))).val
        /\ udf.val.part_desc = PD_parse(ScanBlock(FirstIdx("PD"))).val
        /\ udf.val.logical_vol_desc
             = LVD_parse(ScanBlock(FirstIdx("LVD")), overflow_checks).val

\* C3 amended: the session holds the last PVD, PD and LVD the scan read
\* before it stopped; a later descriptor of a kind replaces the earlier one.
C3_RetainsLast ==
    udf.some =>
        /\ udf.val.primary_vol_desc = PVD_parse(ScanBlock(LastIdx("PVD"))).val
        /\ udf.val.part_desc = PD_parse(ScanBlock(LastIdx("PD"))).val
        /\ udf.val.logical_vol_desc
             = LVD_parse(ScanBlock(LastIdx("LVD")), overflow_checks).val

\* a session opened on a sequence with two PDs of different partition starts
C3_Witness ==
    /\ udf.some
    /\ \E i, j \in ScanIdx("PD") :
         /\ i < j
         /\ ScanBlock(i).part_start # ScanBlock(j).part_start

\* C4 as stated: a block of any kind but PVD, PD, LVD and TD, a Volume
\* Descriptor Pointer and a tag_id outside TagID included, is skipped: the
\* scan goes on to the next sector with what it has collected.
C4_OnlyTDStops ==
    [][(InScan /\ ReadBlock(n).tag_id \notin {1, 5, 6, 8})
         => (pc' = "scan" /\ n' = Wrap32(AddN(n, U(1)))
             /\ UNCHANGED <<o_pvd, o_pd, o_lvd>>)]_vars

\* C4 amended: TD and VD (the Volume Descriptor Pointer) stop the scan; a
\* block of kind UNK, AVD, IUVD, USD or LVID is skipped and the scan goes on
\* to the next sector with what it has collected; a tag_id outside TagID
\* makes UDF::new fail with "error parsing VDS tag".
C4_ScanStops ==
    [][InScan =>
         LET raw == ReadBlock(n).tag_id
         IN  /\ raw \in {8, 3} => (pc' = "collect" /\ ret' = ret)
             /\ raw \in {0, 2, 4, 7, 9}
                  => (pc' = "scan" /\ n' = Wrap32(AddN(n, U(1)))
                      /\ UNCHANGED <<o_pvd, o_pd, o_lvd>>)
             /\ raw > 9
                  => (pc' = "failed" /\ ~udf'.some
                      /\ ret' = [call |-> "new",
                                 res |-> Err("error parsing VDS tag")])
             /\ pc' = "collect" => raw \in {8, 3}]_vars

\* the scan has collected a PVD it read after a block it skipped
C4_Witness ==
    /\ o_pvd.some
    /\ \E i, j \in 1..Len(ScanReads) :
         /\ i < j
         /\ ScanKind(i) \in {"UNK", "AVD", "IUVD", "USD", "LVID"}
         /\ ScanKind(j) = "PVD"
         /\ o_pvd.val = PVD_parse(ScanBlock(j)).val

\* C5: get_alloc_descs on an ICB whose flags have low 4 bits outside
\* {0, 1, 2} returns the UnknownAllocType error to its caller, whatever the
\* body variant: it neither decodes the blob nor aborts the process.
C5_UnknownAllocTypeIsError ==
    (out # NoCall /\ out.call = "get_alloc_descs"
       /\ inp.icb.icb_tag.flags % 16 \notin {0, 1, 2})
    => (~out.res.ok /\ ~out.res.panic /\ out.res.err = "unknown alloc type.")

\* C6: every absolute address the session computes is the exact integer
\* (partition_start + raw_lbn + metadata_offset_or_0) * 2048 for all 32-bit
\* operands: never reduced modulo 2^32, and the same whichever of the
\* metadata offset and the partition start is added first.
C6_ExactAddress ==
    out # NoCall =>
        /\ out.res.ok
        /\ out.res.val
             = ShlN(AddN(AddN(inp.part_start, inp.lbn),
                         IF inp.meta.some THEN inp.meta.val ELSE Zero), 11)

\* the partition maps of the session's LVD that are Type2
Type2Idx(u) ==
    {i \in 1..Len(u.logical_vol_desc.part_maps) :
       u.logical_vol_desc.part_maps[i].variant = "Type2"}

\* the allocation descriptors of the ICB at sector part_start +
\* meta_file_loc (a u32 sum) for the i-th partition map of the session's LVD
MetaFileDescs(u, i) ==
    LET s == Wrap32(AddN(u.part_desc.part_start,
                         u.logical_vol_desc.part_maps[i].meta_file_loc))
    IN  ICB_get_alloc_descs(ICB_parse(ReadBlock(s)).val).val

\* C7 as stated: the cached metadata offset is absent when the LVD has no
\* Type2 partition map, and otherwise is the block number of the first
\* allocation descriptor of the ICB at partition_start + meta_file_loc.
C7_MetaOffsetIsFirstDesc ==
    udf.some =>
        IF Type2Idx(udf.val) = {} THEN udf.val.meta_file_offset = None
        ELSE \E i \in Type2Idx(udf.val) :
               /\ MetaFileDescs(udf.val, i) # <<>>
               /\ udf.val.meta_file_offset
                    = Some(AllocDescLoc(MetaFileDescs(udf.val, i)[1]))

\* C7 amended: the cached metadata offset is absent when the LVD has no
\* Type2 partition map, and also when the ICB at sector partition_start +
\* meta_file_loc (of the last Type2 map, the sum taken as a u32) has no
\* allocation descriptor; otherwise it is the block number of that ICB's
\* first allocation descriptor.  It is set by UDF::new, and no later
\* get_root_dir, alloc_desc_to_offset_len or read_into_buf call changes it
\* or the retained PVD, PD and LVD.
C7_MetaOffsetCached ==
    /\ [](udf.some =>
            IF Type2Idx(udf.val) = {} THEN udf.val.meta_file_offset = None
            ELSE LET last == CHOOSE i \in Type2Idx(udf.val) :
                                \A j \in Type2Idx(udf.val) : j <= i
                     descs == MetaFileDescs(udf.val, last)
                 IN  udf.val.meta_file_offset
                       = IF descs = <<>> THEN None
                         ELSE Some(AllocDescLoc(descs[1])))
    /\ [](ret.call \in {"get_root_dir", "alloc_desc_to_offset_len",
                        "read_into_buf"} => udf.some)
    /\ [][udf.some => udf' = udf]_vars

\* a session on an LVD with a Type2 partition map whose metadata file ICB
\* has no allocation descriptor, after a get_root_dir call
C7_Witness ==
    /\ udf.some
    /\ Type2Idx(udf.val) # {}
    /\ udf.val.meta_file_offset = None
    /\ ret.call = "get_root_dir"

\* the block get_root_dir read as the root ICB: the one at its second seek
RootICBBlock ==
    LET at == {s \in DOMAIN image : MulBlockSize64(s) = ret.seeks[2]}
    IN  IF at = {} THEN ZeroBlock ELSE image[CHOOSE s \in at : TRUE]

\* C8: get_root_dir fails with MultipleExtentsUnsupported whenever the root
\* ICB's allocation-descriptor sequence has more than one entry, and returns
\* the root ICB only when the sequence has at most one entry.
C8_MultipleExtentsRejected ==
    ret.call = "get_root_dir" =>
        /\ ret.res.ok =>
             /\ ret.res.val = ICB_parse(RootICBBlock).val
             /\ Len(ICB_get_alloc_descs(ret.res.val).val) <= 1
        /\ (/\ Len(ret.seeks) = 2
            /\ ICB_parse(RootICBBlock).ok
            /\ ICB_get_alloc_descs(ICB_parse(RootICBBlock).val).ok
            /\ Len(ICB_get_alloc_descs(ICB_parse(RootICBBlock).val).val) > 1)
           => ret.res = Err("multiple allocation descriptors for one ICB not supported yet")

\* get_root_dir has failed on a root ICB with exactly two descriptors
C8_Witness ==
    /\ ret.call = "get_root_dir"
    /\ Len(ret.seeks) = 2
    /\ ICB_parse(RootICBBlock).ok
    /\ ICB_get_alloc_descs(ICB_parse(RootICBBlock).val).ok
    /\ Len(ICB_get_alloc_descs(ICB_parse(RootICBBlock).val).val) = 2
    /\ ~ret.res.ok

\* the entries of a partition-map table, walked by their length bytes:
\* <<type byte, length byte>> of each of the first count entries
RECURSIVE PartMapEntries(_, _, _)
PartMapEntries(pm, at, count) ==
    IF count = 0 THEN <<>>
    ELSE <<<<PMByte(pm, at), PMByte(pm, at + 1)>>>>
         \o PartMapEntries(pm, at + PMByte(pm, at + 1), count - 1)

\* a table whose entries each have a length covering their two leading
\* bytes, whose Type1 and Type2 entries have their fixed lengths, and that
\* holds an entry of another type next to a recognized one
HasUnrecognizedPartMap(b) ==
    LET es == PartMapEntries(b.part_maps, 1, b.num_part_maps)
    IN  /\ \A i \in 1..Len(es) :
             /\ es[i][2] >= 2
             /\ es[i][1] = 1 => es[i][2] = PMType1Size
             /\ es[i][1] = 2 => es[i][2] = PMType2Size
        /\ \E i \in 1..Len(es) : es[i][1] \notin {1, 2}
        /\ \E i \in 1..Len(es) : es[i][1] \in {1, 2}

\* C9: an LVD whose partition-map table holds an entry with a type byte
\* other than 1 or 2 next to recognized entries still decodes, the entry
\* consumed by its length byte and the other entries decoded, and UDF::new
\* goes on.
C9_UnrecognizedPartMapSkipped ==
    [][(InScan /\ ReadBlock(n).tag_id = 6 /\ ReadBlock(n).lbs = BLOCKSIZE
          /\ HasUnrecognizedPartMap(ReadBlock(n)))
         => (/\ pc' = "scan"
             /\ o_lvd'.some
             /\ Len(o_lvd'.val.part_maps) = ReadBlock(n).num_part_maps)]_vars

\* the value of the packed field at byte `at` of the parsed blob
PackedField(at) == LeU32(inp.icb.body.alloc_descs, at)

\* type * 2^30 + length = v, type in 0..3, length < 2^30
SplitsAs(v, ty, len) ==
    /\ ty \in 0..3
    /\ IsU32(len)
    /\ len[2] < 2 ^ 14
    /\ len[1] = v[1]
    /\ ty * 2 ^ 14 + len[2] = v[2]

\* C10: the type and length each descriptor parser decodes from a packed
\* 32-bit length field v are bits 31-30 and bits 29-0 of v.
C10_PackedLengthSplit ==
    /\ (out.call = "ShortAD::parse_le" /\ out.res.ok)
         => SplitsAs(PackedField(1), out.res.val.ty, out.res.val.len)
    /\ (out.call = "LongAD::parse_le" /\ out.res.ok)
         => SplitsAs(PackedField(1), out.res.val.ty, out.res.val.len)
    /\ (out.call = "ExtAD::parse_le" /\ out.res.ok)
         => /\ SplitsAs(PackedField(1), out.res.val.len_ty, out.res.val.len)
            /\ SplitsAs(PackedField(5), out.res.val.rec_len_ty,
                        out.res.val.rec_len)

\* an extended descriptor parsed from len = 2^32 - 1 and rec_len = 2^31
C10_Witness ==
    /\ out.call = "ExtAD::parse_le"
    /\ out.res.ok
    /\ PackedField(1) = U32Max
    /\ out.res.val.len_ty = 3
    /\ out.res.val.len = W32(16383, 65535)
    /\ PackedField(5) = W32(32768, 0)
    /\ out.res.val.rec_len_ty = 2
    /\ out.res.val.rec_len = Zero

\* the variant the low 4 bits of the ICB's flags select, and its record size
SelectedVariant ==
    CASE inp.icb.icb_tag.flags % 16 = 0 -> "SHORT"
      [] inp.icb.icb_tag.flags % 16 = 1 -> "LONG"
      [] inp.icb.icb_tag.flags % 16 = 2 -> "EXTENDED"

RecordSize ==
    CASE SelectedVariant = "SHORT" -> 8
      [] SelectedVariant = "LONG" -> 16
      [] SelectedVariant = "EXTENDED" -> 20

\* the i-th record of the blob (from 0): bytes [i*s, (i+1)*s)
BlobRecord(i) ==
    SubSeq(inp.icb.body.alloc_descs, i * RecordSize + 1, (i + 1) * RecordSize)

\* the block number recorded in a descriptor, and the little-endian u32 at
\* byte offset `at` (from 0) of a record
DescBlockNr(d) ==
    CASE d.variant = "SHORT" -> d.ad.pos
      [] d.variant = "LONG" -> d.ad.loc.lbn
      [] d.variant = "EXTENDED" -> d.ad.ext_loc.lbn

RecordU32(rec, at) ==
    <<rec[at + 1] + 256 * rec[at + 2], rec[at + 3] + 256 * rec[at + 4], 0, 0>>

BlockNrOffset ==
    CASE SelectedVariant = "SHORT" -> 4
      [] SelectedVariant = "LONG" -> 4
      [] SelectedVariant = "EXTENDED" -> 12

GetAllocDescsReturned ==
    /\ out # NoCall
    /\ out.call = "get_alloc_descs"
    /\ inp.icb.icb_tag.flags % 16 \in {0, 1, 2}

\* C11: with alloc type 0, 1 or 2, get_alloc_descs on a File body whose
\* allocation-descriptor blob has n bytes returns (without error) exactly
\* n div s descriptors of the selected variant, s = 8 / 16 / 20, the i-th one
\* decoded from bytes [i*s, (i+1)*s) of the blob; fewer than s trailing bytes
\* just end the iteration; on a Terminal body it returns the empty sequence.
C11_DescriptorsByRecord ==
    GetAllocDescsReturned
    => /\ out.res.ok
       /\ inp.icb.body.variant = "Terminal" => out.res.val = <<>>
       /\ inp.icb.body.variant = "File"
            => /\ Len(out.res.val)
                    = Len(inp.icb.body.alloc_descs) \div RecordSize
               /\ \A i \in 0..(Len(out.res.val) - 1) :
                    /\ out.res.val[i + 1].variant = SelectedVariant
                    /\ AllocDesc_parse(BlobRecord(i), SelectedVariant).ok
                    /\ out.res.val[i + 1]
                         = AllocDesc_parse(BlobRecord(i), SelectedVariant).val
                    /\ DescBlockNr(out.res.val[i + 1])
                         = RecordU32(BlobRecord(i), BlockNrOffset)

\* two long descriptors returned from a blob of 41 bytes: 9 bytes are left
C11_Witness ==
    /\ GetAllocDescsReturned
    /\ inp.icb.body.variant = "File"
    /\ SelectedVariant = "LONG"
    /\ Len(inp.icb.body.alloc_descs) = 41
    /\ out.res.ok
    /\ Len(out.res.val) = 2
    /\ DescBlockNr(out.res.val[2]) # DescBlockNr(out.res.val[1])

\* the main VDS extent the anchor supplies
MainVDS == AVD_parse(ReadBlock(U(AVDSector))).val.main_vds

AnchorDecoded == pc # "start" /\ AVD_parse(ReadBlock(U(AVDSector))).ok

\* ceil(len / 2048) for a u32 byte length
ExtentSectors(len) == U(len[2] * 32 + (len[1] + 2047) \div 2048)

LeqN(a, b) == a = b \/ LtN(a, b)

\* C12: the VDS scan reads only sectors inside the main VDS extent, whose len
\* is a byte length: every sector n it reads has
\* loc <= n < loc + ceil(len / 2048); and the end of the scan range is the
\* exact sum loc + len, with no 32-bit wrap-around and no overflow panic.
C12_ScanInsideExtent ==
    AnchorDecoded
    => /\ \A i \in 1..Len(ScanReads) :
            /\ LeqN(MainVDS.loc, ScanReads[i].n)
            /\ LtN(ScanReads[i].n,
                   AddN(MainVDS.loc, ExtentSectors(MainVDS.len)))
       /\ pc = "scan" => vds_end = AddN(MainVDS.loc, MainVDS.len)
       /\ ~(pc = "panicked" /\ ret.res.err = "attempt to add with overflow")

====
